---- MODULE Spec2Model ----
(***************************************************************************)
(* Model of app.py: the in-memory session (current_data) of the PR link    *)
(* ranking tool, its CSV loaders, the rank store and the read/export       *)
(* handlers.                                                               *)
(*                                                                         *)
(* Representation.                                                         *)
(*  - A CSV file is [header |-> set of column names, rows |-> sequence of  *)
(*    rows]; a row is a function from the header's columns to cells, as    *)
(*    csv.DictReader yields it.                                            *)
(*  - Scalar cells are strings.  A list-valued cell (link, links,          *)
(*    label_word, ranks) is [enc, items]: the text that encodes the items  *)
(*    as a JSON array ("json"), as a Python literal list ("literal") or    *)
(*    comma-separated ("csv"); a plain one-token text is the csv cell of   *)
(*    one item and the empty text the csv cell of none.  A JSON array of   *)
(*    objects is the cell ("objects") of the records [url, text], text ""  *)
(*    for an object without one.                                           *)
(*  - Python None is the value None; Junk is a JSON value that int()       *)
(*    rejects; integer ranks are 1..MaxRank, so neither collides.          *)
(*  - A dict is a function; prs, whose iteration order the exports show,   *)
(*    is the sequence of its values in insertion order.                    *)
(***************************************************************************)
EXTENDS Integers, Sequences, FiniteSets, TLC

\* prs, rankings: current_data; req, resp: the request last handled and its
\* response; source: the load that built the session (replaced: the Rank
\* Store it replaced held entries); last_save: the last successful save of the
\* session; ops: requests handled since that load
VARIABLES prs, rankings, req, resp, source, last_save, ops

vars == <<prs, rankings, req, resp, source, last_save, ops>>

\* ---------------------------------------------------------------- bounds
MaxRank == 2
MaxRows == 2
MaxOps == 2
MaxLinks == 2

\* ------------------------------------------------------- Python values
None == -1
Junk == -2

EmptyDict == [k \in {} |-> 0]

\* str(n) and int(s) on the decimal texts the model uses
IntText == <<"0", "1", "2", "3", "4", "5", "6", "7", "8", "9">>

Str(n) == IntText[n + 1]

IsIntText(s) == \E n \in 0..9 : IntText[n + 1] = s

ParseInt(s) == CHOOSE n \in 0..9 : IntText[n + 1] = s

\* dict.get / row.get
Get(d, k, default) == IF k \in DOMAIN d THEN d[k] ELSE default

\* d[k] = v on a dict
Put(d, k, v) == [x \in DOMAIN d \cup {k} |-> IF x = k THEN v ELSE d[x]]

\* ------------------------------------------------------------ list cells
Cell(enc, items) == [enc |-> enc, items |-> items]

Plain(s) == IF s = "" THEN Cell("csv", <<>>) ELSE Cell("csv", <<s>>)

RECURSIVE Join(_, _)
Join(items, sep) ==
    IF items = <<>> THEN ""
    ELSE IF Len(items) = 1 THEN items[1]
    ELSE items[1] \o sep \o Join(Tail(items), sep)

RECURSIVE Quoted(_, _)
Quoted(items, q) ==
    IF items = <<>> THEN <<>>
    ELSE <<q \o items[1] \o q>> \o Quoted(Tail(items), q)

\* the text of a cell, already stripped
Text(cell) ==
    IF cell.enc = "csv" THEN Join(cell.items, ",")
    ELSE IF cell.enc = "json" THEN "[" \o Join(Quoted(cell.items, "\""), ", ") \o "]"
    ELSE "[" \o Join(Quoted(cell.items, "'"), ", ") \o "]"

AllIntText(items) == \A i \in 1..Len(items) : IsIntText(items[i])

\* app.py 69-90: json.loads, then ast.literal_eval, then split(',').
\* A comma-separated text of integers only is itself a JSON / Python literal:
\* one integer is a JSON number (neither list nor dict: no links), several
\* are a Python tuple, kept as one entry and rendered by str().
DecodeLinks(cell) ==
    IF cell.items = <<>> THEN <<>>
    ELSE IF cell.enc \in {"json", "literal", "objects"} THEN cell.items
    ELSE IF AllIntText(cell.items)
         THEN IF Len(cell.items) = 1 THEN <<>>
              ELSE <<"(" \o Join(cell.items, ", ") \o ")">>
         ELSE cell.items

\* app.py 92-104: ast.literal_eval, then split(',')
DecodeLabels(cell) == cell.items

\* --------------------------------------------------------- load_csv_data
required_columns == {"uid", "pr_link", "repo", "pr_title"}

KeyIndex(seq, k) ==
    IF \E i \in 1..Len(seq) : seq[i].pr_link = k
    THEN CHOOSE i \in 1..Len(seq) : seq[i].pr_link = k
    ELSE 0

HasKey(seq, k) == KeyIndex(seq, k) # 0

\* app.py 118-138 (bare-URL entries)
DataLinks(links_list, label_words) ==
    [i \in 1..Len(links_list) |->
        LET label_text == IF i <= Len(label_words) THEN label_words[i] ELSE ""
        IN  [link_url   |-> links_list[i],
             link_text  |-> IF label_text # "" THEN label_text ELSE "Link " \o Str(i),
             label_word |-> label_text,
             rank       |-> None]]

\* app.py 123-130 (entries that are objects with url and text)
DataDictLinks(links_list, label_words) ==
    [i \in 1..Len(links_list) |->
        LET label_text == IF i <= Len(label_words) THEN label_words[i] ELSE ""
        IN  [link_url   |-> links_list[i].url,
             link_text  |-> IF label_text # "" THEN label_text ELSE links_list[i].text,
             label_word |-> label_text,
             rank       |-> None]]

\* link_count as stored: the cell's text, or the int len(links_list)
CountStr(s) == [t |-> "str", v |-> s]
CountInt(n) == [t |-> "int", v |-> Str(n)]

\* app.py 56-138: one row
DataRow(header, row, acc) ==
    IF HasKey(acc, row["pr_link"]) THEN acc
    ELSE
      LET links_cell == IF "link" \in header THEN row["link"]
                        ELSE IF "links" \in header THEN row["links"]
                        ELSE Cell("csv", <<>>)
          links_list == DecodeLinks(links_cell)
          label_words == IF "label_word" \in header
                         THEN DecodeLabels(row["label_word"]) ELSE <<>>
      IN  Append(acc,
             [uid        |-> Get(row, "uid", ""),
              pr_link    |-> row["pr_link"],
              repo       |-> row["repo"],
              pr_title   |-> row["pr_title"],
              media_type |-> Get(row, "media_type", ""),
              isGithub   |-> Get(row, "isGithub", ""),
              link_count |-> IF "link_count" \in header
                             THEN CountStr(row["link_count"])
                             ELSE CountInt(Len(links_list)),
              links      |-> IF links_cell.enc = "objects"
                             THEN DataDictLinks(links_list, label_words)
                             ELSE DataLinks(links_list, label_words),
              ranked     |-> "absent"])

RECURSIVE DataFold(_, _, _)
DataFold(header, rows, acc) ==
    IF rows = <<>> THEN acc
    ELSE DataFold(header, Tail(rows), DataRow(header, Head(rows), acc))

\* app.py 47-49
DataSchemaOk(header) == required_columns \subseteq header

\* app.py 43-47: the bytes of the file are not UTF-8; reading the header raises
Undecodable(file) == "bad_bytes" \in DOMAIN file

\* a row shorter than the header: DictReader gives None for the cells it
\* lacks, and .strip() on None raises (app.py 63, 65, 95)
DataRowRaises(header, row) ==
    \/ "link" \in header /\ "link" \notin DOMAIN row
    \/ "link" \notin header /\ "links" \in header /\ "links" \notin DOMAIN row
    \/ "label_word" \in header /\ "label_word" \notin DOMAIN row

\* app.py 56-59: only the first row of a pr_link is decoded
DataRaises(file) ==
    \E n \in 1..Len(file.rows) :
        /\ \A m \in 1..(n - 1) : file.rows[m]["pr_link"] # file.rows[n]["pr_link"]
        /\ DataRowRaises(file.header, file.rows[n])

\* app.py 47-49, 342-346: what load_data answers when load_csv_data raises
DataError(file) ==
    IF Undecodable(file) THEN [type |-> "UnicodeDecodeError"]
    ELSE IF ~DataSchemaOk(file.header)
    THEN [type |-> "KeyError", missing |-> required_columns \ file.header]
    ELSE IF DataRaises(file) THEN [type |-> "AttributeError"]
    ELSE [type |-> "none"]

load_csv_data(file) == DataFold(file.header, file.rows, <<>>)

\* ------------------------------------------------- load_ranking_csv_data
\* (variant) a rank text that does not parse counts as rank 0
ParseRankOrZero(rank_str) == IF IsIntText(rank_str) THEN ParseInt(rank_str) ELSE 0

\* app.py 204-209: rank_str and rank_str.lower() != 'none', then int()
ParseRank(rank_str) == IF IsIntText(rank_str) THEN ParseInt(rank_str) ELSE None

\* app.py 169-173
is_new_format_labels(fieldnames) ==
    "label_word" \in fieldnames /\ "link_index" \in fieldnames /\ "link" \in fieldnames

\* (variant) the combined shape also needs the label_word column
is_new_format_with_labels(fieldnames) ==
    "links" \in fieldnames /\ "label_word" \in fieldnames /\ "ranks" \in fieldnames

is_new_format(fieldnames) == "links" \in fieldnames /\ "ranks" \in fieldnames

is_old_format(fieldnames) == "link_url" \in fieldnames /\ "rank" \in fieldnames

\* app.py 175-179
RankingSchemaOk(fieldnames) ==
    /\ is_new_format_labels(fieldnames) \/ is_new_format(fieldnames)
          \/ is_old_format(fieldnames)
    /\ "uid" \in fieldnames /\ "pr_link" \in fieldnames

\* app.py 184-196: the record of a PR seen for the first time
NewRankingPr(row) ==
    [uid        |-> row["uid"],
     pr_link    |-> row["pr_link"],
     repo       |-> Get(row, "repo", ""),
     pr_title   |-> Get(row, "pr_title", ""),
     media_type |-> Get(row, "media_type", ""),
     isGithub   |-> Get(row, "isGithub", ""),
     link_count |-> CountStr(Get(row, "link_count", "")),
     links      |-> <<>>,
     ranked     |-> "absent"]

\* app.py 235-239: ast.literal_eval, then split(','); a text of one integer
\* evaluates to that number, several to a tuple kept as one entry (both are
\* represented by their str() text)
DecodeRankingLinks(cell) ==
    IF cell.enc \in {"json", "literal"} THEN cell.items
    ELSE IF AllIntText(cell.items)
         THEN IF Len(cell.items) = 1 THEN cell.items
              ELSE <<"(" \o Join(cell.items, ", ") \o ")">>
         ELSE cell.items

\* app.py 251-255: ranks_str.split(','), no literal parsing: the brackets of
\* a list of numbers stay in the first and last token
RankTokens(cell, n) ==
    IF cell.items = <<>> THEN [i \in 1..n |-> ""]
    ELSE IF cell.enc = "csv" THEN cell.items
    ELSE [i \in 1..Len(cell.items) |->
            (IF i = 1 THEN "[" ELSE "") \o cell.items[i]
               \o (IF i = Len(cell.items) THEN "]" ELSE "")]

\* the links and the rank entries one row contributes, per shape.
\* Each is a sequence of [link, keys], keys the sequence of dict keys the row
\* sets to the link's rank, in the order of the assignments.
\* app.py 198-225
RowEntriesLabels(row) ==
    LET link_url   == Text(Get(row, "link", Cell("csv", <<>>)))
        label_word == Text(Get(row, "label_word", Cell("csv", <<>>)))
        rank       == ParseRank(Get(row, "rank", ""))
        index_str  == Get(row, "link_index", "")
    IN  <<[link |-> [link_url   |-> link_url,
                     link_text  |-> IF label_word # "" THEN label_word ELSE "Link",
                     label_word |-> label_word,
                     rank       |-> rank],
           keys |-> IF rank = None THEN <<>>
                    ELSE IF IsIntText(index_str)
                         THEN <<link_url, Str(ParseInt(index_str))>>
                         ELSE <<link_url>>]>>

\* app.py 226-279
RowEntriesCombined(row) ==
    LET links_cell  == Get(row, "links", Cell("csv", <<>>))
        links_list  == DecodeRankingLinks(links_cell)
        label_words == DecodeLabels(Get(row, "label_word", Cell("csv", <<>>)))
        ranks_list  == RankTokens(Get(row, "ranks", Cell("csv", <<>>)), Len(links_list))
    IN  IF links_cell.items = <<>> THEN <<>>
        ELSE [i \in 1..Len(links_list) |->
                LET label_word == IF i <= Len(label_words) THEN label_words[i] ELSE ""
                    rank == IF i <= Len(ranks_list) THEN ParseRank(ranks_list[i]) ELSE None
                IN  [link |-> [link_url   |-> links_list[i],
                               link_text  |-> IF label_word # "" THEN label_word
                                              ELSE "Link " \o Str(i),
                               label_word |-> label_word,
                               rank       |-> rank],
                     keys |-> IF rank = None THEN <<>>
                              ELSE <<links_list[i], Str(i - 1)>>]]

\* app.py 280-302
RowEntriesOld(row) ==
    LET link_url   == row["link_url"]
        rank       == ParseRank(Get(row, "rank", ""))
        label_text == Get(row, "link_text", "Link")
    IN  <<[link |-> [link_url   |-> link_url,
                     link_text  |-> label_text,
                     label_word |-> label_text,
                     rank       |-> rank],
           keys |-> IF rank = None THEN <<>> ELSE <<link_url>>]>>

RowEntries(fieldnames, row) ==
    IF is_new_format_labels(fieldnames) THEN RowEntriesLabels(row)
    ELSE IF is_new_format(fieldnames) THEN RowEntriesCombined(row)
    ELSE RowEntriesOld(row)

RECURSIVE PutAll(_, _, _)
PutAll(d, keys, v) ==
    IF keys = <<>> THEN d ELSE PutAll(Put(d, Head(keys), v), Tail(keys), v)

RECURSIVE AddEntries(_, _)
AddEntries(rk, entries) ==
    IF entries = <<>> THEN rk
    ELSE AddEntries(PutAll(rk, Head(entries).keys, Head(entries).link.rank),
                    Tail(entries))

EntryLinks(entries) == [i \in 1..Len(entries) |-> entries[i].link]

\* app.py 181-302: one row; acc is [prs, rankings]
RankingRow(fieldnames, row, acc) ==
    LET pr_link == row["pr_link"]
        prs0 == IF HasKey(acc.prs, pr_link) THEN acc.prs
                ELSE Append(acc.prs, NewRankingPr(row))
        rk0  == IF HasKey(acc.prs, pr_link) THEN acc.rankings
                ELSE Put(acc.rankings, pr_link, EmptyDict)
        i == KeyIndex(prs0, pr_link)
        entries == RowEntries(fieldnames, row)
    IN  [prs      |-> [prs0 EXCEPT ![i].links = @ \o EntryLinks(entries)],
         rankings |-> [rk0 EXCEPT ![pr_link] = AddEntries(@, entries)]]

RECURSIVE RankingFold(_, _, _)
RankingFold(fieldnames, rows, acc) ==
    IF rows = <<>> THEN acc
    ELSE RankingFold(fieldnames, Tail(rows), RankingRow(fieldnames, Head(rows), acc))

load_ranking_csv_data(file) ==
    RankingFold(file.header, file.rows, [prs |-> <<>>, rankings |-> EmptyDict])

\* a row shorter than the header: .strip() on the None of a missing cell
\* raises (app.py 200-202, 228-230, 283)
RankingRowRaises(fieldnames, row) ==
    LET stripped == IF is_new_format_labels(fieldnames) THEN {"link", "label_word", "rank"}
                    ELSE IF is_new_format(fieldnames) THEN {"links", "label_word", "ranks"}
                    ELSE {"rank"}
    IN  \E c \in stripped : c \in fieldnames /\ c \notin DOMAIN row

RankingRaises(file) ==
    \E n \in 1..Len(file.rows) : RankingRowRaises(file.header, file.rows[n])

\* app.py 175-179, 414-418: what load_ranking answers when
\* load_ranking_csv_data raises; the shape check comes first
RankingError(file) ==
    IF Undecodable(file) THEN [type |-> "UnicodeDecodeError"]
    ELSE IF ~(is_new_format_labels(file.header) \/ is_new_format(file.header)
                \/ is_old_format(file.header))
    THEN [type |-> "KeyError", message |-> "no ranking shape"]
    ELSE IF ~RankingSchemaOk(file.header)
    THEN [type |-> "KeyError", missing |-> {"uid", "pr_link"}]
    ELSE IF RankingRaises(file) THEN [type |-> "AttributeError"]
    ELSE [type |-> "none"]

\* app.py 393-406: split every PR's dict into by_index and by_url
NormalizeOne(rk) ==
    [by_index |-> [ik \in {ParseInt(k) : k \in {x \in DOMAIN rk : IsIntText(x)}} |->
                      rk[Str(ik)]],
     by_url   |-> [k \in {x \in DOMAIN rk : ~IsIntText(x)} |-> rk[k]]]

Normalize(rankings_data) == [p \in DOMAIN rankings_data |-> NormalizeOne(rankings_data[p])]

\* ------------------------------------------------------------ rank store
NoEntry == [by_index |-> EmptyDict, by_url |-> EmptyDict]

\* app.py 505-517: the try block holds int(k) and int(v) together, so a pair
\* goes to by_index only when both convert
ToIndex(k, v) == IsIntText(k) /\ v # Junk

SaveByIndex(body) ==
    [ik \in {ParseInt(k) : k \in {x \in DOMAIN body : ToIndex(x, body[x])}} |->
        body[Str(ik)]]

SaveByUrl(body) ==
    [k \in {x \in DOMAIN body : ~ToIndex(x, body[x])} |-> body[k]]

\* (variant) the incoming URL map replaces the stored one
MergeByUrlReplacing(existing_by_url, by_url) == by_url

\* app.py 519-526
MergeByUrl(existing_by_url, by_url) ==
    [k \in DOMAIN existing_by_url \cup DOMAIN by_url |->
        IF k \in DOMAIN by_url THEN by_url[k] ELSE existing_by_url[k]]

\* app.py 504-531: the entry stored for the PR
SavedEntry(existing, body) ==
    [by_index |-> SaveByIndex(body),
     by_url   |-> MergeByUrl(existing.by_url, SaveByUrl(body))]

\* ------------------------------------------------------------ read paths
\* app.py 469-486: link['rank'] after get_pr's loop body (idx is 0-based);
\* by_index only ever holds int keys, so the str(idx) probe never matches
GetPrRank(rk, idx, link) ==
    IF link.link_url \in DOMAIN rk.by_url THEN rk.by_url[link.link_url]
    ELSE IF idx \in DOMAIN rk.by_index THEN rk.by_index[idx]
    ELSE link.rank

\* app.py 461-488: the PR dict after get_pr; .copy() is shallow, so the link
\* dicts written are those of current_data['prs']
GetPrLinks(pr, store) ==
    IF pr.pr_link \in DOMAIN store
    THEN [i \in 1..Len(pr.links) |->
            [pr.links[i] EXCEPT !.rank = GetPrRank(store[pr.pr_link], i - 1, pr.links[i])]]
    ELSE pr.links

\* app.py 433-445
Ranked(pr, store) ==
    IF pr.pr_link \in DOMAIN store
    THEN LET rk == store[pr.pr_link]
             count == Cardinality({i \in 1..Len(pr.links) :
                          (i - 1) \in DOMAIN rk.by_index
                             \/ pr.links[i].link_url \in DOMAIN rk.by_url})
         IN  count = Len(pr.links)
    ELSE FALSE

BoolStr(b) == IF b THEN "True" ELSE "False"

\* (variant) the index map is consulted before the URL map
CsvRankIndexFirst(rk, idx, link_url) ==
    IF idx \in DOMAIN rk.by_index THEN rk.by_index[idx]
    ELSE IF link_url \in DOMAIN rk.by_url THEN rk.by_url[link_url]
    ELSE None

\* app.py 553-558: '' when unresolved
CsvRank(rk, idx, link_url) ==
    IF link_url \in DOMAIN rk.by_url THEN rk.by_url[link_url]
    ELSE IF idx \in DOMAIN rk.by_index THEN rk.by_index[idx]
    ELSE None

\* app.py 573: str(rank) if rank != '' else ''
RankText(rank) ==
    IF rank = None THEN "" ELSE IF rank = Junk THEN "abc" ELSE Str(rank)

\* app.py 612-617: None when unresolved
JsonRank(rk, idx, link_url) ==
    IF link_url \in DOMAIN rk.by_url THEN rk.by_url[link_url]
    ELSE IF idx \in DOMAIN rk.by_index THEN rk.by_index[idx]
    ELSE None

export_header ==
    {"uid", "pr_link", "repo", "pr_title", "media_type", "isGithub", "link_count",
     "link", "label_word", "link_index", "rank"}

\* app.py 551-574: the rows written for one PR
CsvRows(pr, store) ==
    LET rk == Get(store, pr.pr_link, NoEntry)
    IN  [i \in 1..Len(pr.links) |->
            [uid        |-> pr.uid,
             pr_link    |-> pr.pr_link,
             repo       |-> pr.repo,
             pr_title   |-> pr.pr_title,
             media_type |-> pr.media_type,
             isGithub   |-> pr.isGithub,
             link_count |-> pr.link_count.v,
             link       |-> Plain(pr.links[i].link_url),
             label_word |-> Plain(pr.links[i].label_word),
             link_index |-> Str(i - 1),
             rank       |-> RankText(CsvRank(rk, i - 1, pr.links[i].link_url))]]

RECURSIVE Concat(_)
Concat(seqs) == IF seqs = <<>> THEN <<>> ELSE Head(seqs) \o Concat(Tail(seqs))

\* app.py 536-583: the CSV text, as the file a reader of it sees
export_csv(model, store) ==
    [header |-> export_header,
     rows   |-> Concat([i \in 1..Len(model) |-> CsvRows(model[i], store)])]

\* app.py 589-627
export_json(model, store) ==
    [i \in 1..Len(model) |->
        LET pr == model[i]
            rk == Get(store, pr.pr_link, NoEntry)
        IN  [uid        |-> pr.uid,
             pr_link    |-> pr.pr_link,
             repo       |-> pr.repo,
             pr_title   |-> pr.pr_title,
             media_type |-> pr.media_type,
             isGithub   |-> pr.isGithub,
             link_count |-> pr.link_count,
             links      |-> [j \in 1..Len(pr.links) |->
                              [link_url   |-> pr.links[j].link_url,
                               link_text  |-> pr.links[j].link_text,
                               label_word |-> pr.links[j].label_word,
                               link_index |-> j - 1,
                               rank       |-> JsonRank(rk, j - 1, pr.links[j].link_url)]]]]

\* ---------------------------------------------------------------- inputs
PRKeys == {"p1", "p2"}

\* the scalar columns of the n-th row of a file
Meta(n) ==
    [uid |-> "u" \o Str(n), repo |-> "r" \o Str(n), pr_title |-> "t" \o Str(n),
     media_type |-> "m" \o Str(n), isGithub |-> "g" \o Str(n)]

\* row sequences of 1..MaxRows rows over a set of per-row choices; the two PR
\* keys are interchangeable, so the first row names p1
RowChoices(Choices) ==
    {f \in UNION {[1..k -> Choices] : k \in 1..MaxRows} : f[1].pr = "p1"}

HdrData ==
    {"uid", "pr_link", "repo", "pr_title", "media_type", "isGithub", "link_count",
     "link", "label_word"}

HdrDataLinks == {"uid", "pr_link", "repo", "pr_title", "links"}

HdrLegacy == {"pr_id", "pr_title", "pr_url", "link_url", "link_text"}

DataLinkCells ==
    {Cell("csv", <<>>), Cell("csv", <<"a", "b">>), Cell("literal", <<"a", "a">>),
     Cell("objects", <<[url |-> "a", text |-> "ta"], [url |-> "b", text |-> ""]>>)}

DataChoices == [pr : PRKeys, links : DataLinkCells]

DataRowOf(header, n, c) ==
    LET all == [uid |-> Meta(n).uid, pr_link |-> c.pr, repo |-> Meta(n).repo,
                pr_title |-> Meta(n).pr_title, media_type |-> Meta(n).media_type,
                isGithub |-> Meta(n).isGithub, link_count |-> "7",
                link |-> c.links, links |-> c.links,
                label_word |-> Cell("literal", <<"l1">>),
                pr_id |-> c.pr, pr_url |-> c.pr, link_url |-> "a", link_text |-> "l1"]
    IN  [col \in header |-> all[col]]

DataFile(header, f) ==
    [header |-> header, rows |-> [n \in DOMAIN f |-> DataRowOf(header, n, f[n])]]

\* the same URLs in each of the three encodings of a list cell
UrlSeqs == UNION {[1..k -> {"a", "1"}] : k \in 0..MaxLinks}

EncodedCells == {Cell(enc, items) : enc \in {"json", "literal", "csv"}, items \in UrlSeqs}

EncodedDataFiles ==
    {DataFile(HdrDataLinks, <<[pr |-> "p1", links |-> c]>>) : c \in EncodedCells}

\* one-row data files over every set of the required and the link columns
DataShapeFiles ==
    {DataFile(h, <<[pr |-> "p1", links |-> Cell("csv", <<"a", "b">>)]>>) :
        h \in SUBSET (required_columns \cup {"link", "links"})}

\* a row that ends before the columns in cols
Truncated(row, cols) == [c \in DOMAIN row \ cols |-> row[c]]

\* a file whose bytes are not UTF-8
WithBadBytes(file) == [header |-> file.header, rows |-> file.rows, bad_bytes |-> TRUE]

\* data files that cannot be read: undecodable bytes, and a row that ends
\* before its link cell
BrokenDataFiles ==
    LET file == DataFile(HdrData, <<[pr |-> "p1", links |-> Cell("csv", <<"a", "b">>)]>>)
    IN  {WithBadBytes(file),
         [header |-> file.header, rows |-> <<Truncated(file.rows[1], {"link", "label_word"})>>]}

DataFiles ==
    {DataFile(HdrData, f) : f \in RowChoices(DataChoices)}
      \cup BrokenDataFiles
      \cup {DataFile(h, <<[pr |-> "p1", links |-> Cell("json", <<"a", "b">>)]>>) :
               h \in {HdrDataLinks, HdrLegacy}}
      \cup DataShapeFiles \cup EncodedDataFiles

\* ranking files, shape (a): the export's own columns
RankCells == {Str(r) : r \in 1..MaxRank} \cup {"", "none", "x"}

LabelsChoices == [pr : PRKeys, link : {"a", "1"}, rank : RankCells]

\* the ordinal of row n among the rows of its PR
Ordinal(f, n) == Cardinality({m \in 1..(n - 1) : f[m].pr = f[n].pr})

LabelsFile(f) ==
    [header |-> export_header,
     rows   |-> [n \in DOMAIN f |->
                   [uid |-> Meta(n).uid, pr_link |-> f[n].pr, repo |-> Meta(n).repo,
                    pr_title |-> Meta(n).pr_title, media_type |-> Meta(n).media_type,
                    isGithub |-> Meta(n).isGithub, link_count |-> "7",
                    link |-> Plain(f[n].link), label_word |-> Plain("l1"),
                    link_index |-> Str(Ordinal(f, n)), rank |-> f[n].rank]]]

\* shape (b): parallel lists
HdrCombined == {"uid", "pr_link", "links", "label_word", "ranks"}

CombinedFiles ==
    {[header |-> HdrCombined,
      rows   |-> <<[uid |-> "u1", pr_link |-> "p1", links |-> Cell("literal", <<"a", "b">>),
                    label_word |-> Cell("literal", <<"l1">>), ranks |-> rk]>>] :
        rk \in {Cell("csv", <<"2", "1">>), Cell("csv", <<"1">>), Cell("csv", <<>>),
                Cell("csv", <<"x", "1">>), Cell("csv", <<"none", "2">>),
                Cell("literal", <<"1", "2">>)}}

EncodedRankingFiles ==
    {[header |-> HdrCombined,
      rows   |-> <<[uid |-> "u1", pr_link |-> "p1", links |-> c,
                    label_word |-> Cell("csv", <<>>), ranks |-> Cell("csv", <<>>)]>>] :
        c \in EncodedCells}

\* shape (c): one row per link, no index
HdrOld == {"uid", "pr_link", "link_url", "link_text", "rank"}

OldFiles ==
    {[header |-> HdrOld,
      rows   |-> <<[uid |-> "u1", pr_link |-> "p1", link_url |-> "a", link_text |-> "l1",
                    rank |-> r],
                   [uid |-> "u2", pr_link |-> "p1", link_url |-> "b", link_text |-> "",
                    rank |-> ""]>> ] :
        r \in RankCells}

\* one-row ranking files over every set of the columns the shapes are
\* detected by, with and without the identity columns; the cells differ by
\* column, so the shape that read the row shows in the result
ShapeColumns == {"link", "label_word", "link_index", "rank", "links", "ranks", "link_url"}

ShapeRow ==
    [uid |-> "u1", pr_link |-> "p1", link |-> Plain("a"), label_word |-> Plain("l1"),
     link_index |-> "0", rank |-> "1", links |-> Cell("literal", <<"b", "a">>),
     ranks |-> Cell("csv", <<"2", "1">>), link_url |-> "b"]

ShapeFiles ==
    {[header |-> ids \cup cols, rows |-> <<[c \in ids \cup cols |-> ShapeRow[c]]>>] :
        ids \in {{"uid", "pr_link"}, {"pr_link"}, {"uid"}}, cols \in SUBSET ShapeColumns}

\* ranking files that cannot be read: undecodable bytes, and a row that ends
\* before its rank cell
BrokenRankingFiles ==
    LET file == LabelsFile(<<[pr |-> "p1", link |-> "a", rank |-> "1"]>>)
    IN  {WithBadBytes(file),
         [header |-> file.header, rows |-> <<Truncated(file.rows[1], {"rank"})>>]}

\* no ranking shape
HdrNoShape == {"uid", "pr_link", "link", "rank"}

RankingFiles ==
    {LabelsFile(f) : f \in RowChoices(LabelsChoices)}
      \cup CombinedFiles \cup EncodedRankingFiles \cup OldFiles \cup ShapeFiles
      \cup BrokenRankingFiles
      \cup {[header |-> HdrNoShape,
             rows   |-> <<[uid |-> "u1", pr_link |-> "p1", link |-> Plain("a"),
                           rank |-> "1"]>>]}

\* the files a session is driven with: one and two PRs, a repeated URL, a PR
\* without links, a URL that reads as an integer, every ranking shape, and a
\* header each loader rejects
SessionDataFiles ==
    {DataFile(HdrData, <<[pr |-> "p1", links |-> Cell("csv", <<"a", "b">>)]>>),
     DataFile(HdrData, <<[pr |-> "p1", links |-> Cell("literal", <<"a", "a">>)],
                         [pr |-> "p2", links |-> Cell("csv", <<>>)]>>),
     DataFile(HdrLegacy, <<[pr |-> "p1", links |-> Cell("json", <<"a", "b">>)]>>)}

SessionRankingFiles ==
    {LabelsFile(<<[pr |-> "p1", link |-> "1", rank |-> "1"],
                  [pr |-> "p1", link |-> "a", rank |-> "2"]>>),
     LabelsFile(<<[pr |-> "p1", link |-> "a", rank |-> "1"],
                  [pr |-> "p2", link |-> "a", rank |-> ""]>>),
     [header |-> HdrCombined,
      rows   |-> <<[uid |-> "u1", pr_link |-> "p1", links |-> Cell("literal", <<"a", "b">>),
                    label_word |-> Cell("literal", <<"l1">>),
                    ranks |-> Cell("csv", <<"2", "1">>)]>>],
     [header |-> HdrOld,
      rows   |-> <<[uid |-> "u1", pr_link |-> "p1", link_url |-> "a", link_text |-> "l1",
                    rank |-> "1"],
                   [uid |-> "u2", pr_link |-> "p1", link_url |-> "b", link_text |-> "",
                    rank |-> ""]>>],
     [header |-> HdrNoShape,
      rows   |-> <<[uid |-> "u1", pr_link |-> "p1", link |-> Plain("a"),
                    rank |-> "1"]>>]}

\* bodies of /api/rank: one pair, two indices, an index and a URL, or nothing
SaveKeys == {"a", "b", "0", "1"}

SaveBodies ==
    {(k :> v) : k \in SaveKeys, v \in 1..MaxRank}
      \cup {(k :> Junk) : k \in {"a", "0"}}
      \cup {("0" :> 1) @@ ("1" :> MaxRank), ("0" :> 1) @@ ("a" :> MaxRank), EmptyDict}

\* ----------------------------------------------------------------- state
NoSave == [pr_id |-> "", rankings |-> EmptyDict]

Init ==
    /\ prs = <<>>
    /\ rankings = EmptyDict
    /\ req = [op |-> "start"]
    /\ resp = [status |-> 200]
    /\ source = [op |-> "none"]
    /\ last_save = NoSave
    /\ ops = 0

Loaded(op, file) ==
    /\ source' = [op |-> op, file |-> file, replaced |-> rankings # EmptyDict]
    /\ last_save' = NoSave
    /\ resp' = [status |-> 200, pr_count |-> Len(prs')]
    /\ ops' = 0

Failed(status) ==
    /\ resp' = [status |-> status]
    /\ ops' = ops + 1
    /\ UNCHANGED <<prs, rankings, source, last_save>>

\* app.py 342-346, 414-418: the except branch of a load
LoadFailed(error) ==
    /\ resp' = [status |-> 500, error |-> error]
    /\ ops' = ops + 1
    /\ UNCHANGED <<prs, rankings, source, last_save>>

\* (variant) a data load that leaves the Rank Store in place
load_data_keeping_ranks(file) ==
    /\ ops < MaxOps
    /\ req' = [op |-> "load_data", file |-> file]
    /\ IF DataError(file).type = "none"
       THEN /\ prs' = load_csv_data(file)
            /\ rankings' = rankings
            /\ Loaded("load_data", file)
       ELSE LoadFailed(DataError(file))

\* app.py 313-350
load_data(file) ==
    /\ ops < MaxOps
    /\ req' = [op |-> "load_data", file |-> file]
    /\ IF DataError(file).type = "none"
       THEN /\ prs' = load_csv_data(file)
            /\ rankings' = EmptyDict
            /\ Loaded("load_data", file)
       ELSE LoadFailed(DataError(file))

\* (variant) a ranking import that clears the PR model before it reads the file
load_ranking_clearing_first(file) ==
    /\ ops < MaxOps
    /\ req' = [op |-> "load_ranking", file |-> file]
    /\ IF RankingError(file).type = "none"
       THEN LET loaded == load_ranking_csv_data(file)
            IN  /\ prs' = loaded.prs
                /\ rankings' = Normalize(loaded.rankings)
                /\ Loaded("load_ranking", file)
       ELSE /\ prs' = <<>>
            /\ resp' = [status |-> 500, error |-> RankingError(file)]
            /\ ops' = ops + 1
            /\ UNCHANGED <<rankings, source, last_save>>

\* (variant) a ranking import that keeps the entries of the previous store
load_ranking_merging_store(file) ==
    /\ ops < MaxOps
    /\ req' = [op |-> "load_ranking", file |-> file]
    /\ IF RankingError(file).type = "none"
       THEN LET loaded == load_ranking_csv_data(file)
            IN  /\ prs' = loaded.prs
                /\ rankings' = Normalize(loaded.rankings) @@ rankings
                /\ Loaded("load_ranking", file)
       ELSE LoadFailed(RankingError(file))

\* app.py 369-422
load_ranking(file) ==
    /\ ops < MaxOps
    /\ req' = [op |-> "load_ranking", file |-> file]
    /\ IF RankingError(file).type = "none"
       THEN LET loaded == load_ranking_csv_data(file)
            IN  /\ prs' = loaded.prs
                /\ rankings' = Normalize(loaded.rankings)
                /\ Loaded("load_ranking", file)
       ELSE LoadFailed(RankingError(file))

\* app.py 425-448
get_prs ==
    /\ ops < MaxOps
    /\ ops' = ops + 1
    /\ req' = [op |-> "get_prs"]
    /\ prs' = [i \in 1..Len(prs) |->
                 [prs[i] EXCEPT !.ranked = BoolStr(Ranked(prs[i], rankings))]]
    /\ resp' = [status |-> 200, out |-> prs']
    /\ UNCHANGED <<rankings, source, last_save>>

\* app.py 451-488
get_pr(pr_id) ==
    /\ ops < MaxOps
    /\ req' = [op |-> "get_pr", pr_id |-> pr_id]
    /\ IF ~HasKey(prs, pr_id)
       THEN Failed(404)
       ELSE LET i == KeyIndex(prs, pr_id)
            IN  /\ prs' = [prs EXCEPT ![i].links = GetPrLinks(prs[i], rankings)]
                /\ resp' = [status |-> 200, out |-> prs'[i]]
                /\ ops' = ops + 1
                /\ UNCHANGED <<rankings, source, last_save>>

\* (variant) a save without the not-found check
save_ranking_unchecked(pr_id, body) ==
    /\ ops < MaxOps
    /\ req' = [op |-> "save_ranking", pr_id |-> pr_id, rankings |-> body]
    /\ IF body = EmptyDict
       THEN Failed(400)
       ELSE /\ rankings' = Put(rankings, pr_id,
                               SavedEntry(Get(rankings, pr_id, NoEntry), body))
            /\ resp' = [status |-> 200]
            /\ last_save' = [pr_id |-> pr_id, rankings |-> body]
            /\ ops' = ops + 1
            /\ UNCHANGED <<prs, source>>

\* (variant) a save that rebuilds the Rank Store with the one entry
save_ranking_dropping_others(pr_id, body) ==
    /\ ops < MaxOps
    /\ req' = [op |-> "save_ranking", pr_id |-> pr_id, rankings |-> body]
    /\ IF body = EmptyDict
       THEN Failed(400)
       ELSE IF ~HasKey(prs, pr_id)
       THEN Failed(404)
       ELSE /\ rankings' = Put(EmptyDict, pr_id,
                               SavedEntry(Get(rankings, pr_id, NoEntry), body))
            /\ resp' = [status |-> 200]
            /\ last_save' = [pr_id |-> pr_id, rankings |-> body]
            /\ ops' = ops + 1
            /\ UNCHANGED <<prs, source>>

\* app.py 491-532
save_ranking(pr_id, body) ==
    /\ ops < MaxOps
    /\ req' = [op |-> "save_ranking", pr_id |-> pr_id, rankings |-> body]
    /\ IF body = EmptyDict
       THEN Failed(400)
       ELSE IF ~HasKey(prs, pr_id)
       THEN Failed(404)
       ELSE /\ rankings' = Put(rankings, pr_id,
                               SavedEntry(Get(rankings, pr_id, NoEntry), body))
            /\ resp' = [status |-> 200]
            /\ last_save' = [pr_id |-> pr_id, rankings |-> body]
            /\ ops' = ops + 1
            /\ UNCHANGED <<prs, source>>

\* app.py 535-583
ExportCsv ==
    /\ ops < MaxOps
    /\ ops' = ops + 1
    /\ req' = [op |-> "export_csv"]
    /\ resp' = [status |-> 200, out |-> export_csv(prs, rankings)]
    /\ UNCHANGED <<prs, rankings, source, last_save>>

\* app.py 586-636
ExportJson ==
    /\ ops < MaxOps
    /\ ops' = ops + 1
    /\ req' = [op |-> "export_json"]
    /\ resp' = [status |-> 200, out |-> export_json(prs, rankings)]
    /\ UNCHANGED <<prs, rankings, source, last_save>>

Next ==
    \/ \E file \in SessionDataFiles : load_data(file)
    \/ \E file \in SessionRankingFiles : load_ranking(file)
    \/ get_prs
    \/ \E pr_id \in PRKeys : get_pr(pr_id)
    \/ \E pr_id \in PRKeys, body \in SaveBodies : save_ranking(pr_id, body)
    \/ ExportCsv
    \/ ExportJson

Spec == Init /\ [][Next]_vars

\* the session a load of the families meets: none yet, or the one a ranking
\* file of SessionRankingFiles has just built
Seeded ==
    \/ req.op = "start"
    \/ req.op = "load_ranking" /\ resp.status = 200 /\ req.file \in SessionRankingFiles

\* the loaders alone, applied to every file of the families, on an empty
\* session and on a session a ranking import built
NextIngest ==
    \/ \E file \in SessionRankingFiles : req.op = "start" /\ load_ranking(file)
    \/ \E file \in DataFiles : Seeded /\ load_data(file)
    \/ \E file \in RankingFiles : Seeded /\ load_ranking(file)

SpecIngest == Init /\ [][NextIngest]_vars

\* ================================================================ claims
Entry(p) == Get(rankings, p, NoEntry)

\* the rule of spec 4.5: by_url[u], else by_index[i], else unresolved
Resolved(rk, idx, u) ==
    IF u \in DOMAIN rk.by_url THEN rk.by_url[u]
    ELSE IF idx \in DOMAIN rk.by_index THEN rk.by_index[idx]
    ELSE None

\* the export row of link j of the i-th PR
RowIndex(model, i, j) == Len(Concat([k \in 1..(i - 1) |-> model[k].links])) + j

\* the Rank Store the session's ranking import built
Imported == Normalize(load_ranking_csv_data(source.file).rankings)

ImportIndexed(p, idx) ==
    /\ source.op = "load_ranking"
    /\ p \in DOMAIN Imported
    /\ idx \in DOMAIN Imported[p].by_index

\* every read of the state reports rank r for link j of the i-th PR: what the
\* three handlers compute from the state, and the response just given
Reports(i, j, r) ==
    /\ GetPrLinks(prs[i], rankings)[j].rank = r
    /\ export_csv(prs, rankings).rows[RowIndex(prs, i, j)]["rank"] = RankText(r)
    /\ export_json(prs, rankings)[i].links[j].rank = r
    /\ (req.op = "get_pr" /\ resp.status = 200 /\ req.pr_id = prs[i].pr_link)
          => resp.out.links[j].rank = r
    /\ req.op = "export_csv" => resp.out.rows[RowIndex(prs, i, j)]["rank"] = RankText(r)
    /\ req.op = "export_json" => resp.out[i].links[j].rank = r

\* the last save of the session was on the i-th PR and maps the URL of its
\* link j, whose index the ranking import had ranked
OverridesImport(i, j) ==
    /\ last_save.pr_id = prs[i].pr_link
    /\ prs[i].links[j].link_url \in DOMAIN last_save.rankings
    /\ ImportIndexed(prs[i].pr_link, j - 1)

\* C1 as stated: after a ranking import recorded an index-keyed rank for a
\* link, a later save on its PR that maps the link's URL u to a rank makes
\* get_pr, export_csv and export_json report that rank, for every URL u.
C1_UrlOverride_AsStated ==
    \A i \in 1..Len(prs) : \A j \in 1..Len(prs[i].links) :
        OverridesImport(i, j)
           => Reports(i, j, last_save.rankings[prs[i].links[j].link_url])

\* C1 (amended): the same, for every URL u that does not parse as an integer
\* (a key that parses as one is dispatched to by_index, not by_url).
C1_UrlOverride ==
    \A i \in 1..Len(prs) : \A j \in 1..Len(prs[i].links) :
        (OverridesImport(i, j) /\ ~IsIntText(prs[i].links[j].link_url))
           => Reports(i, j, last_save.rankings[prs[i].links[j].link_url])

\* C1 witness: get_pr answered after a save mapped a link's URL to a rank that
\* differs from the imported index rank and from the index rank now stored
C1_Witness ==
    \E i \in 1..Len(prs) : \E j \in 1..Len(prs[i].links) :
        LET p == prs[i].pr_link
            u == prs[i].links[j].link_url
        IN  /\ OverridesImport(i, j)
            /\ ~IsIntText(u)
            /\ Imported[p].by_index[j - 1] # last_save.rankings[u]
            /\ (j - 1) \in DOMAIN Entry(p).by_index
            /\ Entry(p).by_index[j - 1] # last_save.rankings[u]
            /\ req.op = "get_pr" /\ req.pr_id = p /\ resp.status = 200

\* C2: a successful save keeps every key of the PR's by_url, gives every URL
\* key it mentions (a key that does not parse as an integer) the value it
\* carries, and leaves every key it does not mention present or absent as it
\* was, with its value; it leaves the by_url of every other PR alone, and a
\* step that is neither a successful save nor a successful load changes no
\* by_url at all.
C2_MergeLaw ==
    [][/\ (req'.op = "save_ranking" /\ resp'.status = 200) =>
             LET body == req'.rankings
                 old  == Get(rankings, req'.pr_id, NoEntry).by_url
                 new  == rankings'[req'.pr_id].by_url
             IN  /\ DOMAIN old \subseteq DOMAIN new
                 /\ \A k \in DOMAIN body :
                       ~IsIntText(k) => k \in DOMAIN new /\ new[k] = body[k]
                 /\ \A k \in DOMAIN new \ DOMAIN body :
                       k \in DOMAIN old /\ new[k] = old[k]
                 /\ \A q \in (DOMAIN rankings \cup DOMAIN rankings') \ {req'.pr_id} :
                       Get(rankings', q, NoEntry).by_url = Get(rankings, q, NoEntry).by_url
       /\ ~(req'.op \in {"save_ranking", "load_data", "load_ranking"} /\ resp'.status = 200)
             => \A q \in DOMAIN rankings \cup DOMAIN rankings' :
                   Get(rankings', q, NoEntry).by_url = Get(rankings, q, NoEntry).by_url]_vars

\* C2 witness: after a data load, a save of b alone on a PR whose by_url also
\* holds a, which only an earlier save of the session can have written
C2_Witness ==
    /\ source.op = "load_data"
    /\ req.op = "save_ranking" /\ resp.status = 200
    /\ DOMAIN req.rankings = {"b"}
    /\ {"a", "b"} \subseteq DOMAIN Entry(req.pr_id).by_url

\* the integer-keyed entries of a save: its pairs whose key parses as an
\* integer, under that integer
IndexEntries(body) ==
    [ik \in {ParseInt(k) : k \in {x \in DOMAIN body : IsIntText(x)}} |-> body[Str(ik)]]

\* C3: from a successful save on, until the next save or load, the PR's
\* by_index is exactly the integer-keyed entries of that save; nothing an
\* earlier save or the ranking import recorded by index remains.
C3_IndexReplaced ==
    last_save.pr_id # ""
       => Entry(last_save.pr_id).by_index = IndexEntries(last_save.rankings)

Resolves(pr, j) ==
    \/ pr.links[j].link_url \in DOMAIN Entry(pr.pr_link).by_url
    \/ (j - 1) \in DOMAIN Entry(pr.pr_link).by_index

\* C4: list_prs reports ranked = true for a PR if and only if every link of
\* the PR resolves to a rank, with or without a Rank Store entry and with any
\* number of links.
C4_Completion ==
    req.op = "get_prs" =>
        \A i \in 1..Len(prs) :
            (resp.out[i].ranked = "True")
               <=> \A j \in 1..Len(prs[i].links) : Resolves(prs[i], j)

\* C5: get_pr returns for each link the rank resolved from the current Rank
\* Store (by_url, else by_index, else null), the rank export_json reports.
C5_GetPrResolved ==
    (req.op = "get_pr" /\ resp.status = 200) =>
        LET i == KeyIndex(prs, req.pr_id)
        IN  \A j \in 1..Len(resp.out.links) :
               /\ resp.out.links[j].rank
                     = Resolved(Entry(req.pr_id), j - 1, resp.out.links[j].link_url)
               /\ resp.out.links[j].rank = export_json(prs, rankings)[i].links[j].rank

\* C6: a successful data load leaves the Rank Store empty; a successful
\* ranking load leaves the PR model and the Rank Store that the file alone
\* yields, whatever the session held before.
C6_SessionReset ==
    [][/\ (req'.op = "load_data" /\ resp'.status = 200) => rankings' = EmptyDict
       /\ (req'.op = "load_ranking" /\ resp'.status = 200) =>
             /\ prs' = load_ranking_csv_data(req'.file).prs
             /\ rankings' = Normalize(load_ranking_csv_data(req'.file).rankings)
             /\ \A i \in 1..Len(prs') :
                   \E n \in 1..Len(req'.file.rows) :
                      req'.file.rows[n]["pr_link"] = prs'[i].pr_link
             /\ \A p \in DOMAIN rankings' :
                   \E n \in 1..Len(req'.file.rows) : req'.file.rows[n]["pr_link"] = p]_vars

\* C6 witness: a data load has just replaced a session whose Rank Store held
\* entries
C6_Witness ==
    /\ req.op = "load_data" /\ resp.status = 200
    /\ source.replaced
    /\ rankings = EmptyDict

C8_SaveFrame ==
    [][(req'.op = "save_ranking" /\ resp'.status = 200) =>
          /\ prs' = prs
          /\ \A q \in (DOMAIN rankings \cup DOMAIN rankings') \ {req'.pr_id} :
                /\ q \in DOMAIN rankings /\ q \in DOMAIN rankings'
                /\ rankings'[q] = rankings[q]]_vars

\* C8 witness: a save went through while another PR of the model holds ranks
C8_Witness ==
    /\ req.op = "save_ranking" /\ resp.status = 200
    /\ \E q \in DOMAIN rankings \ {req.pr_id} : HasKey(prs, q) /\ rankings[q] # NoEntry

\* the URLs one row contributes, by the loader that read it
RowUrls(op, header, row) ==
    IF op = "load_data"
    THEN LET cell == IF "link" \in header THEN row["link"]
                     ELSE IF "links" \in header THEN row["links"]
                     ELSE Cell("csv", <<>>)
         IN  IF cell.enc = "objects"
             THEN [e \in 1..Len(cell.items) |-> cell.items[e].url]
             ELSE DecodeLinks(cell)
    ELSE [e \in 1..Len(RowEntries(header, row)) |->
             RowEntries(header, row)[e].link.link_url]

RowsOf(file, p) == SelectSeq(file.rows, LAMBDA row : row["pr_link"] = p)

\* C9: after either load, every PR carries the scalar metadata of the first
\* row with its pr_link, and its links are the links of all rows with that
\* pr_link, concatenated in file order.
C9_Aggregation ==
    (req.op \in {"load_data", "load_ranking"} /\ resp.status = 200) =>
        \A i \in 1..Len(prs) :
            LET rows == RowsOf(req.file, prs[i].pr_link)
            IN  /\ prs[i].uid = rows[1]["uid"]
                /\ [j \in 1..Len(prs[i].links) |-> prs[i].links[j].link_url]
                      = Concat([n \in 1..Len(rows) |->
                                   RowUrls(req.op, req.file.header, rows[n])])

\* every link of the model has a resolved integer rank
FullyRanked ==
    \A i \in 1..Len(prs) : \A j \in 1..Len(prs[i].links) :
        Resolved(Entry(prs[i].pr_link), j - 1, prs[i].links[j].link_url) \in 1..MaxRank

\* export_csv of the session that a ranking load of `file` builds
ExportOfImport(file) ==
    export_csv(load_ranking_csv_data(file).prs,
               Normalize(load_ranking_csv_data(file).rankings))

\* C10: when every link has a resolved integer rank (the model's links are
\* bare URLs without commas), exporting, importing the output as a ranking
\* file and exporting again gives the first output.
C10_ExportImportExport ==
    FullyRanked =>
        ExportOfImport(export_csv(prs, rankings)) = export_csv(prs, rankings)

\* C11: every pair of a successful save whose key parses as an integer is
\* written to by_index under that integer and not to by_url, and every other
\* pair to by_url under its key and not to by_index, whatever the rank value.
C11_KeyDispatch ==
    [][(req'.op = "save_ranking" /\ resp'.status = 200) =>
         LET body == req'.rankings
             old  == Get(rankings, req'.pr_id, NoEntry)
             new  == rankings'[req'.pr_id]
         IN  /\ \A k \in DOMAIN body :
                   IF IsIntText(k)
                   THEN /\ ParseInt(k) \in DOMAIN new.by_index
                        /\ new.by_index[ParseInt(k)] = body[k]
                        /\ k \in DOMAIN new.by_url
                              => k \in DOMAIN old.by_url /\ new.by_url[k] = old.by_url[k]
                   ELSE /\ k \in DOMAIN new.by_url
                        /\ new.by_url[k] = body[k]
             /\ DOMAIN new.by_index
                   = {ParseInt(k) : k \in {x \in DOMAIN body : IsIntText(x)}}]_vars

\* the ordinal a ranking row gives for its e-th link: the link_index cell in
\* shape (a), the list position in shape (b), none in shape (c)
RowLinkIndex(header, row, e) ==
    IF is_new_format_labels(header)
    THEN IF IsIntText(row["link_index"]) THEN ParseInt(row["link_index"]) ELSE None
    ELSE IF is_new_format(header) THEN e - 1
    ELSE None

\* the number of links of a PR with URL u
Occurrences(pr, u) == Cardinality({j \in 1..Len(pr.links) : pr.links[j].link_url = u})

\* C12: after a successful ranking import, every row (or list position) that
\* carries a rank r for URL u of PR p has u in by_url of p, with rank r when u
\* occurs once in p, also for a URL that reads as an integer; with an explicit
\* index k, by_index[k] of p is r; the legacy shape records no by_index entry.
C12_PopulateFromImport ==
    (req.op = "load_ranking" /\ resp.status = 200) =>
        \A n \in 1..Len(req.file.rows) :
            LET header  == req.file.header
                row     == req.file.rows[n]
                p       == row["pr_link"]
                entries == RowEntries(header, row)
            IN  \A e \in 1..Len(entries) :
                   LET u == entries[e].link.link_url
                       r == entries[e].link.rank
                       k == RowLinkIndex(header, row, e)
                   IN  /\ r # None =>
                             /\ u \in DOMAIN Entry(p).by_url
                             /\ Occurrences(prs[KeyIndex(prs, p)], u) = 1
                                   => Entry(p).by_url[u] = r
                             /\ k # None =>
                                   k \in DOMAIN Entry(p).by_index /\ Entry(p).by_index[k] = r
                       /\ is_old_format(header) /\ ~is_new_format_labels(header)
                             /\ ~is_new_format(header)
                             => Entry(p).by_index = EmptyDict

\* the shape the stated rule selects for a column set
StatedShape(h) ==
    IF {"link", "label_word", "link_index", "rank"} \subseteq h THEN "a"
    ELSE IF {"links", "label_word", "ranks"} \subseteq h THEN "b"
    ELSE IF {"link_url", "rank"} \subseteq h THEN "c"
    ELSE "none"

\* the same rule without the rank column in (a) and the label_word column in (b)
DetectedShape(h) ==
    IF {"link", "label_word", "link_index"} \subseteq h THEN "a"
    ELSE IF {"links", "ranks"} \subseteq h THEN "b"
    ELSE IF {"link_url", "rank"} \subseteq h THEN "c"
    ELSE "none"

\* what reading the file in a given shape yields: the loader's result on the
\* file without the columns that would select a shape of higher priority
\* (which the given shape does not read)
LoadedAs(shape, file) ==
    LET h == IF shape = "a" THEN file.header
             ELSE IF shape = "b" THEN file.header \ {"link", "link_index"}
             ELSE file.header \ {"link", "link_index", "links", "ranks"}
    IN  load_ranking_csv_data([header |-> h, rows |-> file.rows])

\* a ranking load of a decodable file with full rows uses the shape that
\* Shape selects; it fails with a schema error, session unchanged, when
\* Shape selects none or uid or pr_link is missing
DetectsBy(Shape(_)) ==
    (req'.op = "load_ranking" /\ ~Undecodable(req'.file) /\ ~RankingRaises(req'.file)) =>
        LET shape == Shape(req'.file.header)
        IN  IF shape = "none" \/ ~({"uid", "pr_link"} \subseteq req'.file.header)
            THEN /\ resp'.status = 500 /\ resp'.error.type = "KeyError"
                 /\ prs' = prs /\ rankings' = rankings
            ELSE /\ resp'.status = 200
                 /\ prs' = LoadedAs(shape, req'.file).prs
                 /\ rankings' = Normalize(LoadedAs(shape, req'.file).rankings)

\* C13 as stated: ingest_ranking uses shape (a) when the columns include
\* link, label_word, link_index and rank, else (b) when they include links,
\* label_word and ranks, else (c) when they include link_url and rank, and
\* fails with a SchemaError, session unchanged, when no shape matches or uid
\* or pr_link is missing.
C13_RankingSchema_AsStated == [][DetectsBy(StatedShape)]_vars

\* C13 (amended): shape (a) is selected by link, label_word and link_index
\* alone and shape (b) by links and ranks alone; the rest as stated.
C13_RankingSchema == [][DetectsBy(DetectedShape)]_vars

\* C13 witness: a file with the columns of all three shapes has replaced an
\* imported session and was read in shape (a)
C13_Witness ==
    /\ req.op = "load_ranking" /\ resp.status = 200
    /\ source.replaced
    /\ ShapeColumns \subseteq req.file.header
    /\ Len(prs) = 1 /\ Len(prs[1].links) = 1 /\ prs[1].links[1].link_url = "a"

\* the rows of a legacy file read one link per row: a PR per pr_id, in file
\* order, with the link_url and link_text of each of its rows
LegacyRead(file) ==
    /\ \A n \in 1..Len(file.rows) : HasKey(prs, file.rows[n]["pr_id"])
    /\ \A i \in 1..Len(prs) :
          LET rows == SelectSeq(file.rows, LAMBDA row : row["pr_id"] = prs[i].pr_link)
          IN  /\ Len(prs[i].links) = Len(rows)
              /\ \A j \in 1..Len(rows) :
                    /\ prs[i].links[j].link_url = rows[j]["link_url"]
                    /\ prs[i].links[j].link_text = rows[j]["link_text"]

\* C14: ingest_data reads a file in combined/label mode when its columns
\* include link or links together with uid, pr_link, repo and pr_title, reads
\* the legacy one-row-per-link shape in plain per-row mode, and otherwise
\* fails with a schema error naming the missing required columns.
C14_DataSchema ==
    (req.op = "load_data" /\ ~Undecodable(req.file)) =>
        LET h == req.file.header
        IN  IF required_columns \subseteq h /\ ({"link", "links"} \cap h) # {}
            THEN resp.status = 200 /\ prs = load_csv_data(req.file)
            ELSE IF HdrLegacy \subseteq h
            THEN resp.status = 200 /\ LegacyRead(req.file)
            ELSE /\ resp.status = 500
                 /\ resp.error = [type |-> "KeyError", missing |-> required_columns \ h]

\* the link_count the source file declares for the PR key p (in the first row
\* of p), or the number of links of the PR when the file has no such column
DeclaredOrActual(file, pr) ==
    IF "link_count" \in file.header
    THEN LET key == IF "pr_link" \in file.header THEN "pr_link" ELSE "pr_id"
         IN  SelectSeq(file.rows, LAMBDA row : row[key] = pr.pr_link)[1]["link_count"]
    ELSE Str(Len(pr.links))

\* C15: for every PR of a loaded session, the link_count that export_csv and
\* export_json write is the count the source file declared, or the actual
\* number of links of the PR when the file declared none.
C15_LinkCount ==
    source.op # "none" =>
        \A i \in 1..Len(prs) :
            LET expected == DeclaredOrActual(source.file, prs[i])
            IN  /\ export_json(prs, rankings)[i].link_count.v = expected
                /\ \A j \in 1..Len(prs[i].links) :
                      export_csv(prs, rankings).rows[RowIndex(prs, i, j)]["link_count"]
                         = expected

\* the list cell a data row gives its links in
DataLinksCell(header, row) ==
    IF "link" \in header THEN row["link"]
    ELSE IF "links" \in header THEN row["links"]
    ELSE Cell("csv", <<>>)

\* where each link of the PR key p comes from, in the order of the links:
\* the row and the position in the row's list.  A data load reads the first
\* row of p, a ranking import every row of p.
LinkSources(op, file, p) ==
    LET rows == RowsOf(file, p)
    IN  IF op = "load_data"
        THEN [e \in 1..Len(DecodeLinks(DataLinksCell(file.header, rows[1]))) |->
                 [row |-> rows[1], pos |-> e]]
        ELSE Concat([n \in 1..Len(rows) |->
                        [e \in 1..Len(RowEntries(file.header, rows[n])) |->
                            [row |-> rows[n], pos |-> e]]])

\* the label list of a row
RowLabels(header, row) ==
    IF "label_word" \in header THEN DecodeLabels(row["label_word"]) ELSE <<>>

\* the text the link entry itself carries: the text of an object entry, the
\* link_text cell of a legacy ranking row
OwnText(op, header, src) ==
    IF op = "load_data"
    THEN IF DataLinksCell(header, src.row).enc = "objects"
         THEN DataLinksCell(header, src.row).items[src.pos].text
         ELSE ""
    ELSE IF is_new_format_labels(header) \/ is_new_format(header) THEN ""
    ELSE Get(src.row, "link_text", "")

\* C16: after a load in any mode, the link at ordinal i has the i-th element
\* of its row's label list as label, or the empty label past the end of the
\* list; its text is the label if non-empty, else the text the entry itself
\* carries if any, else the placeholder "Link {i+1}" (numbered by the
\* position in the row's list or in the PR's): never empty, never "Link".
C16_LabelsAndText ==
    (req.op \in {"load_data", "load_ranking"} /\ resp.status = 200) =>
        \A i \in 1..Len(prs) :
            LET srcs == LinkSources(req.op, req.file, prs[i].pr_link)
            IN  \A j \in 1..Len(prs[i].links) :
                   LET labels == RowLabels(req.file.header, srcs[j].row)
                       label  == IF srcs[j].pos <= Len(labels)
                                 THEN labels[srcs[j].pos] ELSE ""
                       own    == OwnText(req.op, req.file.header, srcs[j])
                       link   == prs[i].links[j]
                   IN  /\ link.label_word = label
                       /\ IF label # "" THEN link.link_text = label
                          ELSE IF own # "" THEN link.link_text = own
                          ELSE link.link_text
                                  \in {"Link " \o Str(srcs[j].pos), "Link " \o Str(j)}

\* the list cell of a row that is decoded as a link list, if the load has one
HasLinksCell(op, header) ==
    IF op = "load_data" THEN {"link", "links"} \cap header # {}
    ELSE is_new_format(header) /\ ~is_new_format_labels(header)

LinksCell(op, header, row) ==
    IF op = "load_data" THEN DataLinksCell(header, row) ELSE row["links"]

\* C17: a cell that holds a sequence of comma-free URLs decodes to that
\* sequence, in order, whether it is written as a JSON array, as a bracketed
\* quoted list or comma-separated, in ingest_data (which reads the first row
\* of a PR) and in the combined shape of ingest_ranking.
C17_EncodingIndependence ==
    (req.op \in {"load_data", "load_ranking"} /\ resp.status = 200
        /\ HasLinksCell(req.op, req.file.header)) =>
        \A i \in 1..Len(prs) :
            LET rows  == RowsOf(req.file, prs[i].pr_link)
                read  == IF req.op = "load_data" THEN 1 ELSE Len(rows)
                cells == [n \in 1..read |-> LinksCell(req.op, req.file.header, rows[n])]
            IN  (\A n \in 1..read : cells[n].enc \in {"json", "literal", "csv"}) =>
                   [j \in 1..Len(prs[i].links) |-> prs[i].links[j].link_url]
                      = Concat([n \in 1..read |-> cells[n].items])

\* the text of the rank cell (or of the rank token at its list position) of
\* the e-th link of a ranking row
RankCellOf(header, row, e) ==
    IF is_new_format_labels(header) \/ ~is_new_format(header)
    THEN Get(row, "rank", "")
    ELSE LET tokens == RankTokens(Get(row, "ranks", Cell("csv", <<>>)),
                                  Len(RowEntries(header, row)))
         IN  IF e <= Len(tokens) THEN tokens[e] ELSE ""

\* the links of the rows of PR key p, in file order, each with its URL, the
\* ordinal its row gives it and the text of its rank cell
RankedLinks(file, p) ==
    LET rows == RowsOf(file, p)
    IN  Concat([n \in 1..Len(rows) |->
                   [e \in 1..Len(RowEntries(file.header, rows[n])) |->
                       [url   |-> RowEntries(file.header, rows[n])[e].link.link_url,
                        index |-> RowLinkIndex(file.header, rows[n], e),
                        cell  |-> RankCellOf(file.header, rows[n], e)]]])

\* the keys the links with an integer rank cell record: their URL and, when
\* their row gives one, their ordinal
KeysOfRanked(links) ==
    UNION {{links[j].url} \cup (IF links[j].index = None THEN {} ELSE {Str(links[j].index)}) :
              j \in {x \in 1..Len(links) : IsIntText(links[x].cell)}}

\* C18: a ranking file with a valid shape and full rows is ingested whatever
\* its rank cells hold; a link whose rank cell is empty, 'none' or not an
\* integer is in its PR's list at its place, unranked, and records no key:
\* every by_url and by_index key of the PR is one that a link with an integer
\* rank cell recorded.
C18_RankParseFailure ==
    (req.op = "load_ranking" /\ ~Undecodable(req.file) /\ RankingSchemaOk(req.file.header)
        /\ ~RankingRaises(req.file)) =>
        /\ resp.status = 200
        /\ \A n \in 1..Len(req.file.rows) : HasKey(prs, req.file.rows[n]["pr_link"])
        /\ \A i \in 1..Len(prs) :
              LET links == RankedLinks(req.file, prs[i].pr_link)
                  entry == Entry(prs[i].pr_link)
              IN  /\ Len(prs[i].links) = Len(links)
                  /\ \A j \in 1..Len(links) :
                        /\ prs[i].links[j].link_url = links[j].url
                        /\ ~IsIntText(links[j].cell) => prs[i].links[j].rank = None
                  /\ DOMAIN entry.by_url \cup {Str(k) : k \in DOMAIN entry.by_index}
                        = KeysOfRanked(links)

\* C18 witness: an import in which a link with a rank cell that is not an
\* integer precedes a ranked link of the same PR, whose index alone is stored
C18_Witness ==
    /\ req.op = "load_ranking" /\ resp.status = 200
    /\ Len(prs) = 1
    /\ LET links == RankedLinks(req.file, prs[1].pr_link)
       IN  /\ Len(links) = 2
           /\ links[1].cell \in {"x", "none"}
           /\ DOMAIN Entry(prs[1].pr_link).by_index = {1}

\* C19: in every reachable state, whatever loads and saves (successful or
\* failed) led to it, every PR key with a Rank Store entry is a key of the
\* current PR model.
C19_StoreKeysInModel == \A p \in DOMAIN rankings : HasKey(prs, p)

\* C19 witness: a save for a PR that the current model does not hold has just
\* been refused, in a session whose model replaced an earlier ranked one and
\* whose store holds entries
C19_Witness ==
    /\ req.op = "save_ranking" /\ resp.status = 404
    /\ ~HasKey(prs, req.pr_id)
    /\ source.op # "none" /\ source.replaced
    /\ rankings # EmptyDict

\* the PR model and the Rank Store are both what the last successful load
\* made from its one file
FromOneFile ==
    /\ source.op = "none" => prs = <<>> /\ rankings = EmptyDict
    /\ source.op = "load_data" =>
          prs = load_csv_data(source.file) /\ rankings = EmptyDict
    /\ source.op = "load_ranking" =>
          /\ prs = load_ranking_csv_data(source.file).prs
          /\ rankings = Normalize(load_ranking_csv_data(source.file).rankings)

\* C20: a load that does not answer 200 (wrong columns, missing identity
\* columns, undecodable bytes, a row that cannot be read) leaves the PR model
\* and the Rank Store exactly as they were; so, loads alone never reach a
\* state whose PR model comes from one file and whose Rank Store from another.
C20_FailedLoadKeepsState ==
    [][/\ (req'.op \in {"load_data", "load_ranking"} /\ resp'.status # 200)
            => (prs' = prs /\ rankings' = rankings)
       /\ FromOneFile']_vars

\* C20 witness: a ranking import of undecodable bytes has failed on a session
\* that an earlier import filled, and the session is still that import's
C20_Witness ==
    /\ req.op = "load_ranking" /\ resp.status = 500
    /\ resp.error.type = "UnicodeDecodeError"
    /\ source.op = "load_ranking" /\ source.file # req.file
    /\ prs # <<>> /\ rankings # EmptyDict

\* the rank a ranking file gives for the j-th link of PR key p in that link's
\* own row (or list position): the integer of its rank cell, else none
OwnRank(file, p, j) ==
    LET cell == RankedLinks(file, p)[j].cell
    IN  IF IsIntText(cell) THEN ParseInt(cell) ELSE None

\* C21: immediately after a successful ranking import, for every PR and every
\* link of it, export_csv, export_json and get_pr report for the link the
\* rank its own source row gave (unresolved when the row gave none), also when
\* two links of the PR share a URL, when a URL reads as an integer and when
\* the file's link_index values differ from the ordinal positions.
C21_ImportedRanksReadBack ==
    (req.op = "load_ranking" /\ resp.status = 200) =>
        \A i \in 1..Len(prs) :
            /\ Len(RankedLinks(req.file, prs[i].pr_link)) = Len(prs[i].links)
            /\ \A j \in 1..Len(prs[i].links) :
                  Reports(i, j, OwnRank(req.file, prs[i].pr_link, j))

====
